---------------------------- MODULE Spec2Model ----------------------------
(***************************************************************************)
(* graphql-access-control: the subject resolution and per-record           *)
(* authorization filtering of the two index.js variants (the async one     *)
(* whose resolvers call contextToSubject, and the synchronous one whose    *)
(* context hook calls reqToSubject), over the data store of data.js.       *)
(*                                                                         *)
(* A JavaScript string is a sequence of code units (naturals); a comment   *)
(* beside each literal gives its text.  Every other JavaScript value is a  *)
(* record tagged by its type.                                              *)
(***************************************************************************)
EXTENDS Integers, Sequences, FiniteSets

(***************************************************************************)
(* JavaScript values                                                       *)
(***************************************************************************)
Str(s)  == [t |-> "string", s |-> s]
Num(n)  == [t |-> "number", n |-> n]
Bool(b) == [t |-> "boolean", b |-> b]
Null == [t |-> "null"]
Undefined == [t |-> "undefined"]
\* an object is the sequence of its members, in insertion order
Obj(m)  == [t |-> "object", m |-> m]
Arr(e)  == [t |-> "array", e |-> e]
Member(k, v) == [k |-> k, v |-> v]

IsString(v) == v.t = "string"

\* o.name: the last member of that name wins; a primitive or an array has
\* no such property (undefined).  null.name and undefined.name throw, which
\* the callers test with IsNullish before reading.
GetProp(v, name) ==
  IF v.t # "object" THEN Undefined
  ELSE LET idx == {i \in 1..Len(v.m) : v.m[i].k = name}
       IN IF idx = {} THEN Undefined
          ELSE v.m[CHOOSE i \in idx : \A j \in idx : j <= i].v

IsNullish(v) == v.t \in {"null", "undefined"}

\* ToBoolean
Truthy(v) ==
  CASE v.t = "boolean" -> v.b
    [] v.t = "number" -> v.n # 0
    [] v.t = "string" -> v.s # <<>>
    [] v.t \in {"null", "undefined"} -> FALSE
    [] OTHER -> TRUE

RECURSIVE DigitsOf(_)
DigitsOf(n) == IF n < 10 THEN <<48 + n>> ELSE DigitsOf(n \div 10) \o <<48 + (n % 10)>>

RECURSIVE ToString(_)
RECURSIVE JoinElements(_, _)
\* Array.prototype.join(","): null and undefined elements give ""
JoinElements(e, i) ==
  IF i > Len(e) THEN <<>>
  ELSE (IF i > 1 THEN <<44>> ELSE <<>>)
       \o (IF IsNullish(e[i]) THEN <<>> ELSE ToString(e[i]))
       \o JoinElements(e, i + 1)
\* ToString, which String.prototype.localeCompare applies to its argument
ToString(v) ==
  CASE v.t = "string" -> v.s
    [] v.t = "number" -> IF v.n < 0 THEN <<45>> \o DigitsOf(-v.n) ELSE DigitsOf(v.n)
    [] v.t = "boolean" -> IF v.b THEN <<116, 114, 117, 101>>            \* "true"
                          ELSE <<102, 97, 108, 115, 101>>                \* "false"
    [] v.t = "null" -> <<110, 117, 108, 108>>                            \* "null"
    [] v.t = "undefined" -> <<117, 110, 100, 101, 102, 105, 110, 101, 100>> \* "undefined"
    [] v.t = "array" -> JoinElements(v.e, 1)
    [] OTHER -> <<91, 111, 98, 106, 101, 99, 116, 32, 79, 98, 106, 101, 99, 116, 93>> \* "[object Object]"

(***************************************************************************)
(* String.prototype.substring, indexOf                                     *)
(***************************************************************************)
Clamp(n, lo, hi) == IF n < lo THEN lo ELSE IF n > hi THEN hi ELSE n

\* s.substring(start, end), 0-based, arguments clamped to [0, length] and
\* swapped when start > end
substring(s, start, end) ==
  LET a == Clamp(start, 0, Len(s))
      b == Clamp(end, 0, Len(s))
      lo == IF a < b THEN a ELSE b
      hi == IF a < b THEN b ELSE a
  IN SubSeq(s, lo + 1, hi)

\* a faulty search: the last occurrence, as s.lastIndexOf(c) gives
indexOf_Last(s, c) ==
  LET idx == {i \in 1..Len(s) : s[i] = c}
  IN IF idx = {} THEN -1 ELSE (CHOOSE i \in idx : \A j \in idx : j <= i) - 1

\* s.indexOf(c) for a single code unit c: 0-based, -1 when absent
indexOf(s, c) ==
  LET idx == {i \in 1..Len(s) : s[i] = c}
  IN IF idx = {} THEN -1 ELSE (CHOOSE i \in idx : \A j \in idx : i <= j) - 1

(***************************************************************************)
(* String.prototype.localeCompare (default locale, default options).       *)
(* The collation compares collation elements, not code units: code points  *)
(* that the root collation makes completely ignorable (control characters  *)
(* such as U+0000, format characters such as U+00AD SOFT HYPHEN) carry no  *)
(* weight at any level the comparison looks at.  The resolvers only test   *)
(* the result against 0; its sign follows the code point order of the      *)
(* weighted characters.                                                    *)
(***************************************************************************)
Ignorable == {0, 173}

RECURSIVE CollationKey(_)
CollationKey(s) ==
  IF s = <<>> THEN <<>>
  ELSE IF Head(s) \in Ignorable THEN CollationKey(Tail(s))
       ELSE <<Head(s)>> \o CollationKey(Tail(s))

RECURSIVE CompareKeys(_, _)
CompareKeys(a, b) ==
  IF a = <<>> THEN (IF b = <<>> THEN 0 ELSE -1)
  ELSE IF b = <<>> THEN 1
  ELSE IF Head(a) < Head(b) THEN -1
  ELSE IF Head(a) > Head(b) THEN 1
  ELSE CompareKeys(Tail(a), Tail(b))

\* s.localeCompare(that)
localeCompare(s, that) == CompareKeys(CollationKey(s), CollationKey(ToString(that)))

(***************************************************************************)
(* Buffer.from(tok, 'base64'): Node's decoder never throws.  It skips      *)
(* every character outside the base64 alphabet (the URL-safe '-' and '_'   *)
(* are in it), stops at the first '=', and emits a byte for every 8 bits   *)
(* collected.                                                              *)
(***************************************************************************)
unbase64(c) ==
  CASE c >= 65 /\ c <= 90 -> c - 65          \* A-Z
    [] c >= 97 /\ c <= 122 -> c - 71         \* a-z
    [] c >= 48 /\ c <= 57 -> c + 4           \* 0-9
    [] c = 43 \/ c = 45 -> 62                \* + -
    [] c = 47 \/ c = 95 -> 63                \* / _
    [] OTHER -> 64                           \* illegal

RECURSIVE Sextets(_)
Sextets(tok) ==
  IF tok = <<>> \/ Head(tok) = 61 THEN <<>>
  ELSE IF unbase64(Head(tok)) < 64 THEN <<unbase64(Head(tok))>> \o Sextets(Tail(tok))
       ELSE Sextets(Tail(tok))

Base64Decode(tok) ==
  LET v == Sextets(tok)
      n == Len(v)
      nbytes == (n \div 4) * 3 + (IF n % 4 = 2 THEN 1 ELSE IF n % 4 = 3 THEN 2 ELSE 0)
      byte(k) ==
        LET g == 4 * ((k - 1) \div 3)
            j == (k - 1) % 3
        IN CASE j = 0 -> (v[g + 1] * 4 + (v[g + 2] \div 16)) % 256
             [] j = 1 -> ((v[g + 2] % 16) * 16 + (v[g + 3] \div 4)) % 256
             [] OTHER -> ((v[g + 3] % 4) * 64 + v[g + 4]) % 256
  IN [k \in 1..nbytes |-> byte(k)]

(***************************************************************************)
(* buf.toString(): UTF-8 decoding, one U+FFFD for a byte that starts no    *)
(* well-formed sequence.  One-, two- and three-byte sequences are decoded. *)
(***************************************************************************)
IsCont(b) == b >= 128 /\ b <= 191

\* a faulty decoding: one character per byte, as toString('latin1') gives
Latin1Decode(b) == b

RECURSIVE Utf8Decode(_)
Utf8Decode(b) ==
  IF b = <<>> THEN <<>>
  ELSE IF b[1] < 128 THEN <<b[1]>> \o Utf8Decode(Tail(b))
  ELSE IF b[1] >= 194 /\ b[1] <= 223 /\ Len(b) >= 2 /\ IsCont(b[2])
       THEN <<(b[1] - 192) * 64 + (b[2] - 128)>> \o Utf8Decode(SubSeq(b, 3, Len(b)))
  ELSE IF b[1] >= 224 /\ b[1] <= 239 /\ Len(b) >= 3 /\ IsCont(b[2]) /\ IsCont(b[3])
          /\ (b[1] = 224 => b[2] >= 160) /\ (b[1] = 237 => b[2] <= 159)
       THEN <<(b[1] - 224) * 4096 + (b[2] - 128) * 64 + (b[3] - 128)>>
            \o Utf8Decode(SubSeq(b, 4, Len(b)))
  ELSE <<65533>> \o Utf8Decode(Tail(b))

(***************************************************************************)
(* JSON.parse.  The result is [ok, val, pos]: ok is FALSE for a            *)
(* SyntaxError; pos is the index after the value.  Numbers are the         *)
(* integers (no fraction or exponent occurs in the inputs drawn).          *)
(***************************************************************************)
Fail == [ok |-> FALSE, val |-> Undefined, pos |-> 0]
Ok(v, p) == [ok |-> TRUE, val |-> v, pos |-> p]

IsWs(c) == c \in {32, 9, 10, 13}
IsDigit(c) == c >= 48 /\ c <= 57

RECURSIVE SkipWs(_, _)
SkipWs(s, i) == IF i <= Len(s) /\ IsWs(s[i]) THEN SkipWs(s, i + 1) ELSE i

HexVal(c) ==
  CASE c >= 48 /\ c <= 57 -> c - 48
    [] c >= 65 /\ c <= 70 -> c - 55
    [] c >= 97 /\ c <= 102 -> c - 87
    [] OTHER -> -1

\* the characters after the opening quote, up to the closing one
RECURSIVE ParseChars(_, _, _)
ParseChars(s, i, acc) ==
  IF i > Len(s) THEN Fail
  ELSE IF s[i] = 34 THEN Ok(Str(acc), i + 1)
  ELSE IF s[i] < 32 THEN Fail
  ELSE IF s[i] # 92 THEN ParseChars(s, i + 1, Append(acc, s[i]))
  ELSE IF i + 1 > Len(s) THEN Fail
  ELSE LET e == s[i + 1]
       IN CASE e \in {34, 92, 47} -> ParseChars(s, i + 2, Append(acc, e))
            [] e = 98 -> ParseChars(s, i + 2, Append(acc, 8))
            [] e = 102 -> ParseChars(s, i + 2, Append(acc, 12))
            [] e = 110 -> ParseChars(s, i + 2, Append(acc, 10))
            [] e = 114 -> ParseChars(s, i + 2, Append(acc, 13))
            [] e = 116 -> ParseChars(s, i + 2, Append(acc, 9))
            [] e = 117 ->
                 IF i + 5 > Len(s) \/ \E k \in 2..5 : HexVal(s[i + k]) < 0 THEN Fail
                 ELSE ParseChars(s, i + 6,
                        Append(acc, HexVal(s[i + 2]) * 4096 + HexVal(s[i + 3]) * 256
                                    + HexVal(s[i + 4]) * 16 + HexVal(s[i + 5])))
            [] OTHER -> Fail

RECURSIVE ParseDigits(_, _, _)
ParseDigits(s, i, acc) ==
  IF i <= Len(s) /\ IsDigit(s[i]) THEN ParseDigits(s, i + 1, acc * 10 + (s[i] - 48))
  ELSE Ok(Num(acc), i)

\* -? (0 | [1-9][0-9]*)
ParseNumber(s, i) ==
  LET neg == s[i] = 45
      j == IF neg THEN i + 1 ELSE i
  IN IF j > Len(s) \/ ~IsDigit(s[j]) THEN Fail
     ELSE LET r == IF s[j] = 48 THEN Ok(Num(0), j + 1) ELSE ParseDigits(s, j, 0)
          IN IF neg THEN Ok(Num(-r.val.n), r.pos) ELSE r

ParseLiteral(s, i, text, v) ==
  IF i + Len(text) - 1 <= Len(s) /\ SubSeq(s, i, i + Len(text) - 1) = text
  THEN Ok(v, i + Len(text)) ELSE Fail

RECURSIVE ParseValue(_, _)
RECURSIVE ParseMembers(_, _, _)
RECURSIVE ParseElements(_, _, _)

\* after '{' or ',': "key" : value, then ',' or '}'
ParseMembers(s, i, acc) ==
  LET j == SkipWs(s, i)
  IN IF j > Len(s) \/ s[j] # 34 THEN Fail
     ELSE LET k == ParseChars(s, j + 1, <<>>)
          IN IF ~k.ok THEN Fail
             ELSE LET c == SkipWs(s, k.pos)
                  IN IF c > Len(s) \/ s[c] # 58 THEN Fail
                     ELSE LET v == ParseValue(s, c + 1)
                          IN IF ~v.ok THEN Fail
                             ELSE LET d == SkipWs(s, v.pos)
                                      m == Append(acc, Member(k.val.s, v.val))
                                  IN IF d > Len(s) THEN Fail
                                     ELSE IF s[d] = 125 THEN Ok(Obj(m), d + 1)
                                     ELSE IF s[d] = 44 THEN ParseMembers(s, d + 1, m)
                                     ELSE Fail

\* after '[' or ',': value, then ',' or ']'
ParseElements(s, i, acc) ==
  LET v == ParseValue(s, i)
  IN IF ~v.ok THEN Fail
     ELSE LET d == SkipWs(s, v.pos)
              e == Append(acc, v.val)
          IN IF d > Len(s) THEN Fail
             ELSE IF s[d] = 93 THEN Ok(Arr(e), d + 1)
             ELSE IF s[d] = 44 THEN ParseElements(s, d + 1, e)
             ELSE Fail

ParseValue(s, i) ==
  LET j == SkipWs(s, i)
  IN IF j > Len(s) THEN Fail
     ELSE CASE s[j] = 123 ->                                   \* {
                 LET k == SkipWs(s, j + 1)
                 IN IF k <= Len(s) /\ s[k] = 125 THEN Ok(Obj(<<>>), k + 1)
                    ELSE ParseMembers(s, j + 1, <<>>)
            [] s[j] = 91 ->                                    \* [
                 LET k == SkipWs(s, j + 1)
                 IN IF k <= Len(s) /\ s[k] = 93 THEN Ok(Arr(<<>>), k + 1)
                    ELSE ParseElements(s, j + 1, <<>>)
            [] s[j] = 34 -> ParseChars(s, j + 1, <<>>)         \* "
            [] s[j] = 116 -> ParseLiteral(s, j, <<116, 114, 117, 101>>, Bool(TRUE))
            [] s[j] = 102 -> ParseLiteral(s, j, <<102, 97, 108, 115, 101>>, Bool(FALSE))
            [] s[j] = 110 -> ParseLiteral(s, j, <<110, 117, 108, 108>>, Null)
            [] s[j] = 45 \/ IsDigit(s[j]) -> ParseNumber(s, j)
            [] OTHER -> Fail

\* JSON.parse(text): [ok |-> FALSE] when it throws SyntaxError
JSONparse(text) ==
  LET v == ParseValue(text, 1)
  IN IF v.ok /\ SkipWs(text, v.pos) = Len(text) + 1 THEN v ELSE Fail

(***************************************************************************)
(* The requester's side of a fake token (data.js): the base64 encoding of  *)
(* the UTF-8 bytes of JSON.stringify(object).                              *)
(***************************************************************************)
HexDigit(n) == IF n < 10 THEN 48 + n ELSE 87 + n

\* JSON.stringify of a string: quotes, with '"', '\' and the control
\* characters escaped
RECURSIVE QuoteChars(_)
QuoteChars(s) ==
  IF s = <<>> THEN <<>>
  ELSE LET c == Head(s)
           e == CASE c = 34 -> <<92, 34>>
                  [] c = 92 -> <<92, 92>>
                  [] c = 8 -> <<92, 98>>
                  [] c = 9 -> <<92, 116>>
                  [] c = 10 -> <<92, 110>>
                  [] c = 12 -> <<92, 102>>
                  [] c = 13 -> <<92, 114>>
                  [] c < 32 -> <<92, 117, 48, 48, HexDigit(c \div 16), HexDigit(c % 16)>>
                  [] OTHER -> <<c>>
       IN e \o QuoteChars(Tail(s))

Quote(s) == <<34>> \o QuoteChars(s) \o <<34>>

\* JSON.stringify of an object whose members are strings
RECURSIVE StringifyMembers(_, _)
StringifyMembers(m, i) ==
  IF i > Len(m) THEN <<>>
  ELSE (IF i > 1 THEN <<44>> ELSE <<>>)
       \o Quote(m[i].k) \o <<58>> \o Quote(m[i].v.s)
       \o StringifyMembers(m, i + 1)

JSONstringify(o) == <<123>> \o StringifyMembers(o.m, 1) \o <<125>>

RECURSIVE Utf8Encode(_)
Utf8Encode(s) ==
  IF s = <<>> THEN <<>>
  ELSE LET c == Head(s)
           e == IF c < 128 THEN <<c>>
                ELSE IF c < 2048 THEN <<192 + (c \div 64), 128 + (c % 64)>>
                ELSE <<224 + (c \div 4096), 128 + ((c \div 64) % 64), 128 + (c % 64)>>
       IN e \o Utf8Encode(Tail(s))

Base64Char(v) ==
  CASE v < 26 -> 65 + v
    [] v < 52 -> 71 + v
    [] v < 62 -> v - 4
    [] v = 62 -> 43
    [] OTHER -> 47

RECURSIVE Base64Encode(_)
Base64Encode(b) ==
  IF b = <<>> THEN <<>>
  ELSE IF Len(b) = 1
       THEN <<Base64Char(b[1] \div 4), Base64Char((b[1] % 4) * 16), 61, 61>>
  ELSE IF Len(b) = 2
       THEN <<Base64Char(b[1] \div 4), Base64Char((b[1] % 4) * 16 + (b[2] \div 16)),
              Base64Char((b[2] % 16) * 4), 61>>
  ELSE <<Base64Char(b[1] \div 4), Base64Char((b[1] % 4) * 16 + (b[2] \div 16)),
         Base64Char((b[2] % 16) * 4 + (b[3] \div 64)), Base64Char(b[3] % 64)>>
       \o Base64Encode(SubSeq(b, 4, Len(b)))

\* the fake token of a JSON text, and of an object
TokenOfText(text) == Base64Encode(Utf8Encode(text))
FakeToken(o) == TokenOfText(JSONstringify(o))

(***************************************************************************)
(* data.js                                                                 *)
(***************************************************************************)
Owner1 == <<52, 54, 57, 56, 54, 51, 50, 49, 54, 56, 49, 51>>   \* "469863216813"
Owner2 == <<52, 54, 55, 55, 52, 53, 56, 54, 51, 50, 52, 50>>   \* "467745863242"

Account(id, owner) == [id |-> id, owner |-> owner]
Transfer(date, creditor, debitor) == [date |-> date, creditor |-> creditor, debitor |-> debitor]

accounts ==
  << Account("516236577", Owner1), Account("516236582", Owner1), Account("516236631", Owner1),
     Account("745586325", Owner2), Account("745586331", Owner2), Account("745586340", Owner2) >>

transfers ==
  << Transfer("Fri Feb 21 21:31:20 UTC 2019", Account("516236577", Owner1), Account("516236631", Owner1)),
     Transfer("Thu Feb 20 16:31:20 UTC 2019", Account("745586331", Owner2), Account("745586325", Owner2)) >>

SampleData == [accounts |-> accounts, transfers |-> transfers]

\* The resolvers read whatever data.js exports.  A second store, with the
\* same accounts and transfers between the two owners, makes the two legs of
\* a transfer differ.
CrossTransfers ==
  << Transfer("Fri Feb 21 21:31:20 UTC 2019", Account("516236577", Owner1), Account("745586325", Owner2)),
     Transfer("Thu Feb 20 16:31:20 UTC 2019", Account("745586331", Owner2), Account("516236631", Owner1)) >>

CrossData == [accounts |-> accounts, transfers |-> CrossTransfers]

Stores == {SampleData, CrossData}

(***************************************************************************)
(* index.js, async variant                                                 *)
(***************************************************************************)
NoSubjectPresent == <<110, 111, 32, 115, 117, 98, 106, 101, 99, 116, 32, 112, 114, 101, 115, 101, 110, 116>>      \* "no subject present"
FakeTokenFailure == <<70, 97, 107, 101, 32, 116, 111, 107, 101, 110, 32, 102, 97, 105, 108, 117, 114, 101>>        \* "Fake token failure"
NotAuthenticated == <<110, 111, 116, 32, 97, 117, 116, 104, 101, 110, 116, 105, 99, 97, 116, 101, 100>>            \* "not authenticated"
IntrospectionFailed == <<73, 110, 116, 114, 111, 115, 112, 101, 99, 116, 105, 111, 110, 32, 102, 97, 105, 108, 101, 100>> \* "Introspection failed"
Anonymous == <<97, 110, 111, 110, 121, 109, 111, 117, 115>>       \* "anonymous"

PropSubject == <<115, 117, 98, 106, 101, 99, 116>>                \* "subject"
PropActive == <<97, 99, 116, 105, 118, 101>>                      \* "active"
PropUsername == <<85, 115, 101, 114, 110, 97, 109, 101>>          \* "Username"

\* what a call gives its caller: a value, or an exception
Return(v) == [threw |-> FALSE, value |-> v]
Throw == [threw |-> TRUE, value |-> Undefined]

\* a faulty test: the comparison result taken as a boolean, as the
\* synchronous variant does
OwnerMatches_Truthy(owner, subject) == localeCompare(owner, subject) # 0

\* the test of the accounts and transfers resolvers:
\* owner.localeCompare(context.subject) == 0
OwnerMatches(owner, subject) == localeCompare(owner, subject) = 0

\* resolvers.Query.accounts, after the await: the filtering loop
accountsResolver(store, subject) ==
  SelectSeq(store.accounts, LAMBDA a : OwnerMatches(a.owner, subject))

\* resolvers.Query.transfers, after the await: the filtering loop
transfersResolver(store, subject) ==
  SelectSeq(store.transfers, LAMBDA x : OwnerMatches(x.creditor.owner, subject))

\* tokToSubjectFakeToks: the decoding is outside the try and cannot throw;
\* JSON.parse's SyntaxError, and the TypeError of reading .subject of null,
\* are caught
tokToSubjectFakeToks(tok) ==
  LET decoded == Utf8Decode(Base64Decode(tok))
      ojedTok == JSONparse(decoded)
  IN IF ~ojedTok.ok \/ IsNullish(ojedTok.val) THEN Return(Str(FakeTokenFailure))
     ELSE Return(GetProp(ojedTok.val, PropSubject))

\* a faulty tokToSubjectIntrospection: the test of active left out
tokToSubjectIntrospection_NoActiveTest(outcome) ==
  IF outcome.kind = "rejected" THEN Return(Str(IntrospectionFailed))
  ELSE LET introspection_response == JSONparse(outcome.body)
       IN IF ~introspection_response.ok \/ IsNullish(introspection_response.val)
          THEN Return(Str(IntrospectionFailed))
          ELSE LET username == GetProp(introspection_response.val, PropUsername)
               IN IF ~IsString(username) THEN Return(Str(IntrospectionFailed))
                  ELSE Return(Str(substring(username.s, 0, indexOf(username.s, 64))))

\* tokToSubjectIntrospection from its await on: outcome is how the promise
\* of getPingFedPromise settled.  Everything is inside the try: a rejected
\* promise, a SyntaxError of JSON.parse, the TypeError of reading .active of
\* null and the TypeError of calling .substring on a Username that is no
\* string all end in the catch.
tokToSubjectIntrospection(outcome) ==
  IF outcome.kind = "rejected" THEN Return(Str(IntrospectionFailed))
  ELSE LET introspection_response == JSONparse(outcome.body)
       IN IF ~introspection_response.ok \/ IsNullish(introspection_response.val)
          THEN Return(Str(IntrospectionFailed))
          ELSE LET active == GetProp(introspection_response.val, PropActive)
                   username == GetProp(introspection_response.val, PropUsername)
               IN IF ~Truthy(active) THEN Return(Str(NotAuthenticated))
                  ELSE IF Truthy(active)
                       THEN IF ~IsString(username) THEN Return(Str(IntrospectionFailed))
                            ELSE Return(Str(substring(username.s, 0, indexOf(username.s, 64))))
                  ELSE Return(Str(IntrospectionFailed))

\* "Bearer " is 7 characters long
BearerPrefixLen == 7

\* req.headers.authorization || ''
HeaderToken(authorization) == IF Truthy(authorization) THEN authorization.s ELSE <<>>

\* a faulty test, off by one: token.length >= 7
HasBearerToken_AtLeast(token) == Len(token) >= BearerPrefixLen

\* the test of contextToSubject and of reqToSubject: token.length > 7
HasBearerToken(token) == Len(token) > BearerPrefixLen

\* token.substring(7)
BearerTok(token) == substring(token, BearerPrefixLen, Len(token))

(***************************************************************************)
(* index.js, synchronous variant                                           *)
(***************************************************************************)
\* the test of its resolvers: owner.localeCompare(context.subject), taken
\* as a boolean
syncOwnerMatches(owner, subject) == localeCompare(owner, subject) # 0

syncAccountsResolver(store, subject) ==
  SelectSeq(store.accounts, LAMBDA a : syncOwnerMatches(a.owner, subject))

syncTransfersResolver(store, subject) ==
  SelectSeq(store.transfers, LAMBDA x : syncOwnerMatches(x.creditor.owner, subject))

\* its tokToSubject has no try: JSON.parse's SyntaxError and the TypeError
\* of null.subject reach the caller
syncTokToSubject(tok) ==
  LET decoded == Utf8Decode(Base64Decode(tok))
      ojedTok == JSONparse(decoded)
  IN IF ~ojedTok.ok \/ IsNullish(ojedTok.val) THEN Throw
     ELSE Return(GetProp(ojedTok.val, PropSubject))

reqToSubject(authorization) ==
  LET token == HeaderToken(authorization)
  IN IF HasBearerToken(token) THEN syncTokToSubject(BearerTok(token))
     ELSE Return(Str(Anonymous))

(***************************************************************************)
(* Inputs: the Authorization headers requests carry, the fields an         *)
(* operation selects, and the bodies the introspection endpoint answers.   *)
(***************************************************************************)
MaxSubjectLen == 2

\* '"', '\', U+00AD and a line feed: characters JSON.stringify escapes, and
\* one outside ASCII
SubjectAlphabet == {34, 92, 173, 10}

RECURSIVE StringsOfLen(_)
StringsOfLen(n) ==
  IF n = 0 THEN {<<>>}
  ELSE {Append(x, c) : x \in StringsOfLen(n - 1), c \in SubjectAlphabet}

\* the subjects of the well-formed fake tokens
TokenSubjects ==
  UNION {StringsOfLen(n) : n \in 1..MaxSubjectLen}
    \cup {Owner1, Owner2, Owner1 \o <<173>>, NotAuthenticated}

Scopes == <<115, 99, 111, 112, 101, 115>>      \* "scopes"
Names == <<110, 97, 109, 101, 115>>            \* "names"

\* {"subject": x}, and the two tokens of data.js with their scopes member
\* ("after"), or with the members in the other order
TokenObject(x, form) ==
  CASE form = "only" -> Obj(<<Member(PropSubject, Str(x))>>)
    [] form = "after" -> Obj(<<Member(PropSubject, Str(x)), Member(Scopes, Str(Names))>>)
    [] OTHER -> Obj(<<Member(Scopes, Str(Names)), Member(PropSubject, Str(x))>>)

TokenInputs ==
  {<<x, "only">> : x \in TokenSubjects} \cup ({Owner1, Owner2} \X {"after", "before"})

Bearer == <<66, 101, 97, 114, 101, 114, 32>>   \* "Bearer "

\* the header of each well-formed fake token
TokenHeader == [i \in TokenInputs |-> Str(Bearer \o FakeToken(TokenObject(i[1], i[2])))]

TextEmptyObject == <<123, 125>>                                            \* {}
TextNull == <<110, 117, 108, 108>>                                         \* null
TextNumberSubject == <<123, 34, 115, 117, 98, 106, 101, 99, 116, 34, 58, 53, 125>>  \* {"subject":5}
TextNotJson == <<110, 111, 116, 32, 106, 115, 111, 110>>                   \* not json
TokNotBase64 == <<33, 33, 33, 33>>                                         \* !!!!
\* '!' in front of, and inside, the first token of data.js
TokJunkBefore == <<33>> \o FakeToken(TokenObject(Owner1, "after"))
TokJunkInside ==
  LET k == FakeToken(TokenObject(Owner1, "after"))
  IN SubSeq(k, 1, 10) \o <<33>> \o SubSeq(k, 11, Len(k))

\* tokens that are not the base64 of a JSON object with a string subject
OddTokens ==
  { TokNotBase64, TokJunkBefore, TokJunkInside, <<101>>,
    TokenOfText(TextEmptyObject), TokenOfText(TextNull),
    TokenOfText(TextNumberSubject), TokenOfText(TextNotJson) }

\* headers without a token: "", "Bearer" and "Bearer "; Undefined is the
\* absent header
ShortHeaders == {Undefined, Str(<<>>), Str(SubSeq(Bearer, 1, 6)), Str(Bearer)}

Headers ==
  ShortHeaders \cup {TokenHeader[i] : i \in TokenInputs}
    \cup {Str(Bearer \o k) : k \in OddTokens}

Fields == {"accounts", "transfers"}

\* the Query fields an operation selects, in the order it names them
Selections ==
  {<<"accounts">>, <<"transfers">>, <<"accounts", "transfers">>, <<"transfers", "accounts">>}

\* {"active":false}
BodyInactive ==
  <<123, 34, 97, 99, 116, 105, 118, 101, 34, 58, 102, 97, 108, 115, 101, 125>>
\* {"Username":"469863216813@example.com","active":true}
BodyActive1 ==
  <<123, 34, 85, 115, 101, 114, 110, 97, 109, 101, 34, 58, 34, 52, 54, 57, 56, 54, 51, 50, 49, 54, 56, 49, 51, 64, 101, 120, 97, 109, 112, 108, 101, 46, 99, 111, 109, 34, 44, 34, 97, 99, 116, 105, 118, 101, 34, 58, 116, 114, 117, 101, 125>>
\* {"active":"yes","Username":"467745863242@example.com"}
BodyActiveString2 ==
  <<123, 34, 97, 99, 116, 105, 118, 101, 34, 58, 34, 121, 101, 115, 34, 44, 34, 85, 115, 101, 114, 110, 97, 109, 101, 34, 58, 34, 52, 54, 55, 55, 52, 53, 56, 54, 51, 50, 52, 50, 64, 101, 120, 97, 109, 112, 108, 101, 46, 99, 111, 109, 34, 125>>
\* {"active":true}
BodyNoUsername ==
  <<123, 34, 97, 99, 116, 105, 118, 101, 34, 58, 116, 114, 117, 101, 125>>
\* {"active":true,"Username":"nobody"}
BodyNoAt ==
  <<123, 34, 97, 99, 116, 105, 118, 101, 34, 58, 116, 114, 117, 101, 44, 34, 85, 115, 101, 114, 110, 97, 109, 101, 34, 58, 34, 110, 111, 98, 111, 100, 121, 34, 125>>
\* <html>
BodyNotJson == <<60, 104, 116, 109, 108, 62>>
\* null
BodyNull == <<110, 117, 108, 108>>

\* {"active":false,"Username":"469863216813@example.com"}
BodyInactiveNamed ==
  <<123, 34, 97, 99, 116, 105, 118, 101, 34, 58, 102, 97, 108, 115, 101, 44, 34, 85, 115, 101, 114, 110, 97, 109, 101, 34, 58, 34, 52, 54, 57, 56, 54, 51, 50, 49, 54, 56, 49, 51, 64, 101, 120, 97, 109, 112, 108, 101, 46, 99, 111, 109, 34, 125>>

\* {"active": true, "Username": "abc@example.com"}
BodyAbc ==
  <<123, 34, 97, 99, 116, 105, 118, 101, 34, 58, 32, 116, 114, 117, 101, 44, 32, 34, 85, 115, 101, 114, 110, 97, 109, 101, 34, 58, 32, 34, 97, 98, 99, 64, 101, 120, 97, 109, 112, 108, 101, 46, 99, 111, 109, 34, 125>>
\* {"active":true,"Username":"a@b@c"}
BodyTwoAts ==
  <<123, 34, 97, 99, 116, 105, 118, 101, 34, 58, 116, 114, 117, 101, 44, 34, 85, 115, 101, 114, 110, 97, 109, 101, 34, 58, 34, 97, 64, 98, 64, 99, 34, 125>>
\* {"active":1,"Username":"469863216813@example.com"}
BodyActiveNumber ==
  <<123, 34, 97, 99, 116, 105, 118, 101, 34, 58, 49, 44, 34, 85, 115, 101, 114, 110, 97, 109, 101, 34, 58, 34, 52, 54, 57, 56, 54, 51, 50, 49, 54, 56, 49, 51, 64, 101, 120, 97, 109, 112, 108, 101, 46, 99, 111, 109, 34, 125>>
\* {"active":"","Username":"469863216813@example.com"}
BodyActiveEmptyString ==
  <<123, 34, 97, 99, 116, 105, 118, 101, 34, 58, 34, 34, 44, 34, 85, 115, 101, 114, 110, 97, 109, 101, 34, 58, 34, 52, 54, 57, 56, 54, 51, 50, 49, 54, 56, 49, 51, 64, 101, 120, 97, 109, 112, 108, 101, 46, 99, 111, 109, 34, 125>>

ResponseBodies ==
  { BodyInactive, BodyInactiveNamed, BodyActive1, BodyActiveString2, BodyNoUsername,
    BodyNoAt, BodyNotJson, BodyNull, BodyAbc, BodyTwoAts, BodyActiveNumber,
    BodyActiveEmptyString }

(***************************************************************************)
(* The server.  variant is which index.js runs and strategy the            *)
(* alternative its tokToSubject has uncommented; data is what data.js      *)
(* exports.  Each request r has its phase, its request object, its context *)
(* object, and per selected field the state of that resolver call and of   *)
(* its introspection request.  microtasks is the promise job queue of the  *)
(* process; events[r] lists the strategy calls, the writes of              *)
(* context.subject and the reads the filtering loops make.                 *)
(***************************************************************************)
VARIABLES variant, strategy, data, ids, phase, request, context, field, http,
          microtasks, process, events

vars == <<variant, strategy, data, ids, phase, request, context, field, http,
          microtasks, process, events>>

config == <<variant, strategy, data, ids>>

IdleField == [pc |-> "idle", tok |-> Return(Undefined), seen |-> Undefined, out |-> <<>>]

Init ==
  /\ variant \in {"async", "sync"}
  /\ strategy \in {"local", "remote"}
  /\ variant = "sync" => strategy = "local"
  /\ data \in Stores
  /\ ids = {1}
  /\ phase = [r \in ids |-> "waiting"]
  /\ request = [r \in ids |-> [authorization |-> Undefined, fields |-> <<>>]]
  /\ context = [r \in ids |-> [subject |-> Undefined]]
  /\ field = [r \in ids |-> [f \in Fields |-> IdleField]]
  /\ http = [r \in ids |-> [f \in Fields |-> [kind |-> "none"]]]
  /\ microtasks = <<>>
  /\ process = "running"
  /\ events = [r \in ids |-> <<>>]

\* a callback of the event loop runs when the process is up and no promise
\* job is left over from the callback before it
CanRunCallback == process = "running" /\ microtasks = <<>>

\* a promise job per selected field, in selection order
Jobs(r, sel, step) == [i \in 1..Len(sel) |-> <<r, sel[i], step>>]

\* the reads, writes or calls the selected fields make, in selection order
Reads(sel, v) == [i \in 1..Len(sel) |-> [e |-> "read", f |-> sel[i], v |-> v]]
Writes(sel, v) == [i \in 1..Len(sel) |-> [e |-> "write", f |-> sel[i], v |-> v]]
Invokes(sel, fn) == [i \in 1..Len(sel) |-> [e |-> "invoke", f |-> sel[i], fn |-> fn]]

Selected(r) == {request[r].fields[i] : i \in 1..Len(request[r].fields)}

\* the transport hands the server a request
Arrive(r, authorization, sel) ==
  /\ CanRunCallback
  /\ phase[r] = "waiting"
  /\ phase' = [phase EXCEPT ![r] = "arrived"]
  /\ request' = [request EXCEPT ![r] = [authorization |-> authorization, fields |-> sel]]
  /\ UNCHANGED <<config, context, field, http, microtasks, process, events>>

\* the context hook of new ApolloServer: {request} in the async variant,
\* {subject: reqToSubject(req)} in the synchronous one, where an exception
\* of reqToSubject fails the request before any resolver runs
CreateContext(r) ==
  /\ CanRunCallback
  /\ phase[r] = "arrived"
  /\ IF variant = "async"
     THEN /\ phase' = [phase EXCEPT ![r] = "context"]
          /\ UNCHANGED <<context, events>>
     ELSE LET subject == reqToSubject(request[r].authorization)
          IN IF subject.threw
             THEN /\ phase' = [phase EXCEPT ![r] = "failed"]
                  /\ UNCHANGED <<context, events>>
             ELSE /\ phase' = [phase EXCEPT ![r] = "context"]
                  /\ context' = [context EXCEPT ![r].subject = subject.value]
                  /\ events' = [events EXCEPT ![r] =
                       Append(@, [e |-> "write", f |-> "context", v |-> subject.value])]
  /\ UNCHANGED <<config, request, field, http, microtasks, process>>

\* contextToSubject up to its await of tokToSubject; without a token it
\* runs to its end and the subject it assigns is the sentinel
contextToSubject(authorization) ==
  LET token == HeaderToken(authorization)
  IN IF HasBearerToken(token)
     THEN [awaits |-> TRUE, bearertok |-> BearerTok(token)]
     ELSE [awaits |-> FALSE, subject |-> Str(NoSubjectPresent)]

\* tokToSubject: the alternative left uncommented
tokToSubject ==
  IF strategy = "remote" THEN "tokToSubjectIntrospection" ELSE "tokToSubjectFakeToks"

Resolve(f, store, subject) ==
  IF variant = "async"
  THEN (IF f = "accounts" THEN accountsResolver(store, subject)
        ELSE transfersResolver(store, subject))
  ELSE (IF f = "accounts" THEN syncAccountsResolver(store, subject)
        ELSE syncTransfersResolver(store, subject))

\* The execution of the operation calls the resolver of each selected field
\* in turn, in one callback.  A resolver of the synchronous variant returns
\* its list.  A resolver of the async variant runs contextToSubject up to
\* the first await that suspends it: without a token context.subject is
\* assigned at once and the resolver's own await is queued; with one,
\* tokToSubjectFakeToks has run and the await of its promise is queued, or
\* getPingFedPromise has sent the introspection request.
Execute(r) ==
  /\ CanRunCallback
  /\ phase[r] = "context"
  /\ LET sel == request[r].fields
         c == contextToSubject(request[r].authorization)
         Set(Change(_)) ==
           [field EXCEPT ![r] = [f \in Fields |-> IF f \in Selected(r) THEN Change(f) ELSE @[f]]]
     IN IF variant = "sync"
        THEN /\ phase' = [phase EXCEPT ![r] = "responded"]
             /\ field' = Set(LAMBDA f : [field[r][f] EXCEPT
                             !.pc = "done", !.seen = context[r].subject,
                             !.out = Resolve(f, data, context[r].subject)])
             /\ events' = [events EXCEPT ![r] = @ \o Reads(sel, context[r].subject)]
             /\ UNCHANGED <<context, http, microtasks>>
        ELSE /\ phase' = [phase EXCEPT ![r] = "executing"]
             /\ IF ~c.awaits
                THEN /\ context' = [context EXCEPT ![r].subject = c.subject]
                     /\ field' = Set(LAMBDA f : [field[r][f] EXCEPT !.pc = "awaitCtx"])
                     /\ microtasks' = microtasks \o Jobs(r, sel, "resolver")
                     /\ events' = [events EXCEPT ![r] = @ \o Writes(sel, c.subject)]
                     /\ UNCHANGED http
                ELSE IF tokToSubject = "tokToSubjectFakeToks"
                THEN /\ field' = Set(LAMBDA f : [field[r][f] EXCEPT
                                     !.pc = "awaitTok", !.tok = tokToSubjectFakeToks(c.bearertok)])
                     /\ microtasks' = microtasks \o Jobs(r, sel, "contextToSubject")
                     /\ events' = [events EXCEPT ![r] = @ \o Invokes(sel, tokToSubject)]
                     /\ UNCHANGED <<context, http>>
                ELSE /\ field' = Set(LAMBDA f : [field[r][f] EXCEPT !.pc = "awaitHttp"])
                     /\ http' = [http EXCEPT ![r] = [f \in Fields |->
                          IF f \in Selected(r) THEN [kind |-> "pending", tok |-> c.bearertok]
                          ELSE @[f]]]
                     /\ events' = [events EXCEPT ![r] = @ \o Invokes(sel, tokToSubject)]
                     /\ UNCHANGED <<context, microtasks>>
  /\ UNCHANGED <<config, request, process>>

(***************************************************************************)
(* getPingFedPromise: the three ways its request can end.  No timeout is   *)
(* set on it: without one of these it stays pending.                       *)
(***************************************************************************)
\* response.on('end'): resolve(response_body.toString())
HttpEnd(r, f, body) ==
  /\ CanRunCallback
  /\ http[r][f].kind = "pending"
  /\ http' = [http EXCEPT ![r][f] = [kind |-> "resolved", body |-> body]]
  /\ microtasks' = Append(microtasks, <<r, f, "introspection">>)
  /\ UNCHANGED <<config, phase, request, context, field, process, events>>

\* response.on('error'): reject(error)
HttpResponseError(r, f) ==
  /\ CanRunCallback
  /\ http[r][f].kind = "pending"
  /\ http' = [http EXCEPT ![r][f] = [kind |-> "rejected"]]
  /\ microtasks' = Append(microtasks, <<r, f, "introspection">>)
  /\ UNCHANGED <<config, phase, request, context, field, process, events>>

\* an 'error' event of req itself (connection refused or reset, a socket
\* timeout of the system): req has no 'error' listener, so the event is
\* thrown as an uncaught exception and the process ends; the promise is
\* neither resolved nor rejected
HttpRequestError(r, f) ==
  /\ CanRunCallback
  /\ http[r][f].kind = "pending"
  /\ http' = [http EXCEPT ![r][f] = [kind |-> "requestError"]]
  /\ process' = "crashed"
  /\ UNCHANGED <<config, phase, request, context, field, microtasks, events>>

(***************************************************************************)
(* Promise jobs, run first in, first out                                   *)
(***************************************************************************)
HeadIs(r, f, step) ==
  /\ process = "running"
  /\ microtasks # <<>>
  /\ Head(microtasks) = <<r, f, step>>

\* tokToSubjectIntrospection resumes from its await of the http promise
IntrospectionResume(r, f) ==
  /\ HeadIs(r, f, "introspection")
  /\ field' = [field EXCEPT ![r][f].pc = "awaitTok",
                            ![r][f].tok = tokToSubjectIntrospection(http[r][f])]
  /\ microtasks' = Append(Tail(microtasks), <<r, f, "contextToSubject">>)
  /\ UNCHANGED <<config, phase, request, context, http, process, events>>

PhaseAfter(r, fld) ==
  IF \A f \in Selected(r) : fld[r][f].pc \in {"done", "rejected"} THEN "responded" ELSE phase[r]

\* a faulty contextToSubject: it keeps a subject the context already has
\* and assigns only an absent one
ContextToSubjectResume_KeepFirst(r, f) ==
  /\ HeadIs(r, f, "contextToSubject")
  /\ IF field[r][f].tok.threw
     THEN /\ field' = [field EXCEPT ![r][f].pc = "rejected"]
          /\ phase' = [phase EXCEPT ![r] = PhaseAfter(r, field')]
          /\ microtasks' = Tail(microtasks)
          /\ UNCHANGED <<context, events>>
     ELSE /\ IF context[r].subject = Undefined
             THEN /\ context' = [context EXCEPT ![r].subject = field[r][f].tok.value]
                  /\ events' = [events EXCEPT ![r] =
                       Append(@, [e |-> "write", f |-> f, v |-> field[r][f].tok.value])]
             ELSE UNCHANGED <<context, events>>
          /\ field' = [field EXCEPT ![r][f].pc = "awaitCtx"]
          /\ microtasks' = Append(Tail(microtasks), <<r, f, "resolver">>)
          /\ UNCHANGED phase
  /\ UNCHANGED <<config, request, http, process>>

\* contextToSubject resumes from its await of tokToSubject and assigns
\* context.subject; had tokToSubject thrown, the resolver's promise rejects
ContextToSubjectResume(r, f) ==
  /\ HeadIs(r, f, "contextToSubject")
  /\ IF field[r][f].tok.threw
     THEN /\ field' = [field EXCEPT ![r][f].pc = "rejected"]
          /\ phase' = [phase EXCEPT ![r] = PhaseAfter(r, field')]
          /\ microtasks' = Tail(microtasks)
          /\ UNCHANGED <<context, events>>
     ELSE /\ context' = [context EXCEPT ![r].subject = field[r][f].tok.value]
          /\ field' = [field EXCEPT ![r][f].pc = "awaitCtx"]
          /\ microtasks' = Append(Tail(microtasks), <<r, f, "resolver">>)
          /\ events' = [events EXCEPT ![r] =
               Append(@, [e |-> "write", f |-> f, v |-> field[r][f].tok.value])]
          /\ UNCHANGED phase
  /\ UNCHANGED <<config, request, http, process>>

\* the resolver resumes from its await of contextToSubject and filters the
\* store by context.subject
ResolverResume(r, f) ==
  /\ HeadIs(r, f, "resolver")
  /\ field' = [field EXCEPT ![r][f].pc = "done",
                            ![r][f].seen = context[r].subject,
                            ![r][f].out = Resolve(f, data, context[r].subject)]
  /\ phase' = [phase EXCEPT ![r] = PhaseAfter(r, field')]
  /\ microtasks' = Tail(microtasks)
  /\ events' = [events EXCEPT ![r] =
       Append(@, [e |-> "read", f |-> f, v |-> context[r].subject])]
  /\ UNCHANGED <<config, request, context, http, process>>

Next ==
  \/ \E r \in ids, h \in Headers, sel \in Selections : Arrive(r, h, sel)
  \/ \E r \in ids : CreateContext(r)
  \/ \E r \in ids : Execute(r)
  \/ \E r \in ids, f \in Fields, body \in ResponseBodies : HttpEnd(r, f, body)
  \/ \E r \in ids, f \in Fields : HttpResponseError(r, f)
  \/ \E r \in ids, f \in Fields : HttpRequestError(r, f)
  \/ \E r \in ids, f \in Fields : IntrospectionResume(r, f)
  \/ \E r \in ids, f \in Fields : ContextToSubjectResume(r, f)
  \/ \E r \in ids, f \in Fields : ResolverResume(r, f)

Spec == Init /\ [][Next]_vars

(***************************************************************************)
(* Two requests in flight at once, each with the credential of another     *)
(* subject.  Under the remote strategy the introspection endpoint answers  *)
(* a token with the Username of the subject it was issued to.              *)
(***************************************************************************)
\* the subjects the two requests act for: the two owners of data.js, and a
\* third whose name is the first owner's followed by U+00AD
TwoSubjects == {Owner1, Owner2, Owner1 \o <<173>>}

CredentialOf == [x \in TwoSubjects |-> TokenHeader[<<x, "only">>]]

AtExample == <<64, 101, 120, 97, 109, 112, 108, 101, 46, 99, 111, 109>>   \* "@example.com"

\* {"Username":"<x>@example.com","active":true}
IntrospectionAnswer ==
  [x \in TwoSubjects |->
     <<123>> \o Quote(PropUsername) \o <<58>> \o Quote(x \o AtExample) \o <<44>>
       \o Quote(PropActive) \o <<58, 116, 114, 117, 101, 125>>]

\* the subject r's credential was issued to
CarriedSubject(r) == CHOOSE x \in TwoSubjects : CredentialOf[x] = request[r].authorization

InitTwo ==
  /\ variant \in {"async", "sync"}
  /\ strategy \in {"local", "remote"}
  /\ variant = "sync" => strategy = "local"
  /\ data \in Stores
  /\ ids = {1, 2}
  /\ phase = [r \in ids |-> "waiting"]
  /\ request = [r \in ids |-> [authorization |-> Undefined, fields |-> <<>>]]
  /\ context = [r \in ids |-> [subject |-> Undefined]]
  /\ field = [r \in ids |-> [f \in Fields |-> IdleField]]
  /\ http = [r \in ids |-> [f \in Fields |-> [kind |-> "none"]]]
  /\ microtasks = <<>>
  /\ process = "running"
  /\ events = [r \in ids |-> <<>>]

\* r arrives with the credential of a subject no request before it came for
ArriveFor(r, x, sel) ==
  /\ \A q \in ids \ {r} : phase[q] # "waiting" => request[q].authorization # CredentialOf[x]
  /\ Arrive(r, CredentialOf[x], sel)

NextTwo ==
  \/ \E r \in ids, x \in TwoSubjects, sel \in Selections : ArriveFor(r, x, sel)
  \/ \E r \in ids : CreateContext(r)
  \/ \E r \in ids : Execute(r)
  \/ \E r \in ids, f \in Fields : HttpEnd(r, f, IntrospectionAnswer[CarriedSubject(r)])
  \/ \E r \in ids, f \in Fields : HttpResponseError(r, f)
  \/ \E r \in ids, f \in Fields : HttpRequestError(r, f)
  \/ \E r \in ids, f \in Fields : IntrospectionResume(r, f)
  \/ \E r \in ids, f \in Fields : ContextToSubjectResume(r, f)
  \/ \E r \in ids, f \in Fields : ResolverResume(r, f)

SpecTwo == InitTwo /\ [][NextTwo]_vars

(***************************************************************************)
(* Properties                                                              *)
(***************************************************************************)
Returned(list) == {list[i] : i \in 1..Len(list)}

\* r's header is absent, empty or at most 7 characters long
ShortCredential(r) ==
  request[r].authorization = Undefined \/ Len(request[r].authorization.s) <= 7

\* some resolver of r is past its contextToSubject call
Resolved(r) == \E f \in Fields : field[r][f].pc \in {"awaitCtx", "done"}

Invocations(r) == {i \in 1..Len(events[r]) : events[r][i].e = "invoke"}

\* C1: in the async variant the accounts query returns an account of the
\* store if and only if its owner is exactly the subject the resolver read.
C1_AccountsIffOwnerEqualsSubject ==
  \A r \in ids :
    (variant = "async" /\ field[r]["accounts"].pc = "done"
       /\ IsString(field[r]["accounts"].seen))
    => \A i \in 1..Len(data.accounts) :
         (data.accounts[i] \in Returned(field[r]["accounts"].out))
           <=> (data.accounts[i].owner = field[r]["accounts"].seen.s)

\* C2: in the async variant the transfers query returns a transfer of the
\* store if and only if its creditor's owner is exactly the subject the
\* resolver read, whatever its debitor's owner is.
C2_TransfersIffCreditorOwnerEqualsSubject ==
  \A r \in ids :
    (variant = "async" /\ field[r]["transfers"].pc = "done"
       /\ IsString(field[r]["transfers"].seen))
    => \A i \in 1..Len(data.transfers) :
         (data.transfers[i] \in Returned(field[r]["transfers"].out))
           <=> (data.transfers[i].creditor.owner = field[r]["transfers"].seen.s)

\* C3: in the synchronous variant an account is returned only if its owner
\* equals context.subject, and a transfer only if its creditor's owner does.
C3_SyncReturnsOnlyRequesterRecords ==
  \A r \in ids :
    (variant = "sync" /\ phase[r] = "responded")
    => /\ \A a \in Returned(field[r]["accounts"].out) : Str(a.owner) = context[r].subject
       /\ \A x \in Returned(field[r]["transfers"].out) :
            Str(x.creditor.owner) = context[r].subject

\* C4: when the Authorization header is absent, empty or at most 7
\* characters long, contextToSubject sets context.subject to "no subject
\* present", and neither tokToSubjectFakeToks nor the introspection request
\* is invoked for the request.
C4_ShortCredentialGivesSentinelWithoutStrategy ==
  \A r \in ids :
    (variant = "async" /\ ShortCredential(r))
    => /\ Invocations(r) = {}
       /\ \A f \in Fields : http[r][f].kind = "none"
       /\ phase[r] \in {"executing", "responded"}
            => context[r].subject = Str(NoSubjectPresent)

\* a request whose header is exactly "Bearer " has been answered with the
\* sentinel as its subject
C4_Witness ==
  \E r \in ids :
    /\ variant = "async"
    /\ request[r].authorization = Str(Bearer)
    /\ phase[r] = "responded"
    /\ context[r].subject = Str(NoSubjectPresent)
    /\ Invocations(r) = {}

Sentinels ==
  {Str(NoSubjectPresent), Str(FakeTokenFailure), Str(NotAuthenticated), Str(IntrospectionFailed)}

\* C5: in the async variant, a query whose subject is one of the sentinels
\* returns an empty list.
C5_SentinelSubjectSeesNothing ==
  \A r \in ids : \A f \in Fields :
    (variant = "async" /\ field[r][f].pc = "done" /\ field[r][f].seen \in Sentinels)
    => field[r][f].out = <<>>

\* both queries of a request over the sample store, whose token failed to
\* parse, have returned nothing
C5_Witness ==
  \E r \in ids :
    /\ variant = "async"
    /\ data = SampleData
    /\ \A f \in Fields :
         /\ field[r][f].pc = "done"
         /\ field[r][f].seen = Str(FakeTokenFailure)
         /\ field[r][f].out = <<>>

\* context.subject of r has been assigned
SubjectAssigned(r) ==
  IF variant = "async" THEN Resolved(r) ELSE phase[r] \in {"context", "responded"}

\* C6: under the local strategy a request whose header is "Bearer " and the
\* base64 of the JSON of an object with subject X (alone, or with another
\* member before or after it) is not failed, and once context.subject is
\* assigned it is X.
C6_LocalTokenRoundTrip ==
  \A r \in ids : \A i \in TokenInputs :
    (strategy = "local" /\ request[r].authorization = TokenHeader[i])
    => /\ phase[r] # "failed"
       /\ \A f \in Fields : field[r][f].pc # "rejected"
       /\ SubjectAssigned(r) => context[r].subject = Str(i[1])

\* a request whose token encodes the subject '\' U+00AD has been answered,
\* with that subject
C6_Witness ==
  \E r \in ids :
    /\ variant = "async" /\ strategy = "local"
    /\ request[r].authorization = TokenHeader[<<(<<92, 173>>), "only">>]
    /\ phase[r] = "responded"
    /\ context[r].subject = Str(<<92, 173>>)

IsBase64Char(c) ==
  (c >= 65 /\ c <= 90) \/ (c >= 97 /\ c <= 122) \/ (c >= 48 /\ c <= 57) \/ c \in {43, 47}

\* tok is base64 text: groups of four characters of the alphabet, the last
\* one padded with one or two '='
IsBase64(tok) ==
  LET n == Len(tok)
      pad == IF n >= 2 /\ tok[n] = 61 /\ tok[n - 1] = 61 THEN 2
             ELSE IF n >= 1 /\ tok[n] = 61 THEN 1 ELSE 0
  IN n % 4 = 0 /\ \A k \in 1..(n - pad) : IsBase64Char(tok[k])

\* the token of r's header: what follows its first 7 characters
TokenOf(r) == SubSeq(request[r].authorization.s, 8, Len(request[r].authorization.s))

\* C7: under the local strategy, for a token that is not base64 or whose
\* decoding is not JSON, tokToSubjectFakeToks does not throw and returns
\* "Fake token failure".
C7_MalformedTokenGivesFailureSentinel ==
  \A r \in ids : \A f \in Fields :
    (variant = "async" /\ strategy = "local"
       /\ field[r][f].pc \in {"awaitTok", "awaitCtx", "done", "rejected"}
       /\ ~ShortCredential(r)
       /\ (~IsBase64(TokenOf(r)) \/ ~JSONparse(Utf8Decode(Base64Decode(TokenOf(r)))).ok))
    => field[r][f].tok = Return(Str(FakeTokenFailure))

\* C8: in the async variant, once context.subject is assigned it is a
\* string, whatever the credential.
C8_SubjectIsAlwaysAString ==
  \A r \in ids :
    (variant = "async" /\ Resolved(r)) => IsString(context[r].subject)

\* the introspection call of field f of r has faulted, or its body is not
\* JSON
IntrospectionFaulted(r, f) ==
  \/ http[r][f].kind \in {"rejected", "requestError"}
  \/ http[r][f].kind = "resolved" /\ ~JSONparse(http[r][f].body).ok

\* C9: under the remote strategy, when the introspection call faults or its
\* body is not JSON, the process keeps running, tokToSubjectIntrospection is
\* resumed (the promise settles) and it returns "Introspection failed".
C9_IntrospectionFaultIsAbsorbed ==
  \A r \in ids : \A f \in Fields :
    (strategy = "remote" /\ IntrospectionFaulted(r, f))
    => /\ process = "running"
       /\ field[r][f].pc = "awaitHttp" => microtasks # <<>>
       /\ field[r][f].pc # "awaitHttp" => field[r][f].tok = Return(Str(IntrospectionFailed))

InactiveBodies == {BodyInactive, BodyInactiveNamed}

\* C10: under the remote strategy, a resolver whose introspection response
\* has active false gets the subject "not authenticated" from
\* tokToSubjectIntrospection, filters by it and returns no record.
C10_InactiveTokenNotAuthenticated ==
  \A r \in ids : \A f \in Fields :
    (strategy = "remote" /\ http[r][f].kind = "resolved" /\ http[r][f].body \in InactiveBodies)
    => /\ field[r][f].pc # "rejected"
       /\ field[r][f].pc # "awaitHttp" => field[r][f].tok = Return(Str(NotAuthenticated))
       /\ field[r][f].pc = "done"
            => field[r][f].seen = Str(NotAuthenticated) /\ field[r][f].out = <<>>

\* both queries of a request were answered {"active":false,...} and have
\* returned nothing
C10_Witness ==
  \E r \in ids :
    /\ strategy = "remote"
    /\ phase[r] = "responded"
    /\ \A f \in Fields :
         /\ http[r][f].kind = "resolved" /\ http[r][f].body \in InactiveBodies
         /\ field[r][f].pc = "done" /\ field[r][f].out = <<>>
    /\ \E f \in Fields : http[r][f].body = BodyInactiveNamed

\* the text of u before its first '@', all of u when it has none
RECURSIVE LocalPart(_)
LocalPart(u) ==
  IF u = <<>> \/ Head(u) = 64 THEN <<>> ELSE <<Head(u)>> \o LocalPart(Tail(u))

\* the Username member of a response body that parses to an object
UsernameOf(body) == GetProp(JSONparse(body).val, PropUsername)

\* body is the JSON of an object whose active is true and whose Username is
\* a string with an '@' in it
ActiveWithAddress(body) ==
  LET p == JSONparse(body)
  IN /\ p.ok /\ p.val.t = "object"
     /\ GetProp(p.val, PropActive) = Bool(TRUE)
     /\ IsString(UsernameOf(body))
     /\ \E k \in 1..Len(UsernameOf(body).s) : UsernameOf(body).s[k] = 64

\* the values field f of r has written to context.subject
WrittenBy(r, f) ==
  {events[r][i].v : i \in {j \in 1..Len(events[r]) : events[r][j].e = "write" /\ events[r][j].f = f}}

\* the response bodies with active true and a Username local@domain, and
\* the local part of each
AddressBodies == {b \in ResponseBodies : ActiveWithAddress(b)}
LocalPartOfBody == [b \in AddressBodies |-> Str(LocalPart(UsernameOf(b).s))]

\* C11: under the remote strategy, an introspection response whose active is
\* true and whose Username is local@domain makes tokToSubjectIntrospection
\* return, and contextToSubject assign, exactly the part of Username before
\* its first '@'.
C11_SubjectIsLocalPartOfUsername ==
  \A r \in ids : \A f \in Fields :
    (strategy = "remote" /\ http[r][f].kind = "resolved" /\ http[r][f].body \in AddressBodies)
    => /\ field[r][f].pc # "rejected"
       /\ field[r][f].pc # "awaitHttp"
            => field[r][f].tok = Return(LocalPartOfBody[http[r][f].body])
       /\ WrittenBy(r, f) \subseteq {LocalPartOfBody[http[r][f].body]}
       /\ field[r][f].pc \in {"awaitCtx", "done"} => WrittenBy(r, f) # {}

\* one resolver was answered the Username "abc@example.com" and assigned
\* "abc", the other "a@b@c" and assigned "a"
C11_Witness ==
  \E r \in ids : \E f, g \in Fields :
    /\ strategy = "remote"
    /\ http[r][f].kind = "resolved" /\ http[r][f].body = BodyAbc
    /\ WrittenBy(r, f) = {Str(<<97, 98, 99>>)}
    /\ http[r][g].kind = "resolved" /\ http[r][g].body = BodyTwoAts
    /\ WrittenBy(r, g) = {Str(<<97>>)}

\* r has arrived
Arrived(r) == phase[r] # "waiting"

\* what r's own credential can make its subject: the subject the credential
\* was issued to, or "Introspection failed" when r's own introspection call
\* was rejected
OwnSubjects(r) ==
  {Str(CarriedSubject(r))}
    \cup (IF \E f \in Fields : http[r][f].kind = "rejected" THEN {Str(IntrospectionFailed)} ELSE {})

\* the owners of the records r was returned
OwnersReturned(r) ==
  {a.owner : a \in Returned(field[r]["accounts"].out)}
    \cup {x.creditor.owner : x \in Returned(field[r]["transfers"].out)}

\* context.subject of r, and the subject each of its resolvers read, come
\* from r's own credential
OwnCredentialDecides(r) ==
  /\ SubjectAssigned(r) => context[r].subject \in OwnSubjects(r)
  /\ \A f \in Fields : field[r][f].pc = "done" => field[r][f].seen \in OwnSubjects(r)

\* r reads no subject of q, and is returned no record owned by q's subject
NothingOf(r, q) ==
  /\ SubjectAssigned(r) => context[r].subject # Str(CarriedSubject(q))
  /\ \A f \in Fields : field[r][f].pc = "done" => field[r][f].seen # Str(CarriedSubject(q))
  /\ CarriedSubject(q) \notin OwnersReturned(r)

\* C12: of two requests in flight with the credentials of two different
\* subjects, under any interleaving, each one's context.subject and the
\* subject its resolvers filter by are decided by its own credential, and
\* neither reads the other's subject nor is returned a record owned by the
\* other's subject.
C12_ConcurrentRequestsIsolated ==
  \A r \in ids : \A q \in ids \ {r} :
    (Arrived(r) /\ Arrived(q)) => OwnCredentialDecides(r) /\ NothingOf(r, q)

\* the positions in r's log of the writes of context.subject, and of the
\* reads the filtering loops make of it
WritesOf(r) == {i \in 1..Len(events[r]) : events[r][i].e = "write"}
ReadsOf(r) == {i \in 1..Len(events[r]) : events[r][i].e = "read"}

\* C13: within one request context.subject is absent until it is written,
\* it is written at most once, and every read a field resolver makes to
\* filter the store comes after that one write; so it is never written
\* again, also when both accounts and transfers are selected.
C13_SubjectWrittenOnceBeforeReads ==
  \A r \in ids :
    /\ WritesOf(r) = {} => context[r].subject = Undefined
    /\ Cardinality(WritesOf(r)) <= 1
    /\ \A j \in ReadsOf(r) : \E i \in WritesOf(r) : i < j

\* body is the JSON of an object whose active member is present and is
\* neither true nor false
ActiveNotBoolean(body) ==
  LET p == JSONparse(body)
  IN /\ p.ok /\ p.val.t = "object"
     /\ GetProp(p.val, PropActive) \notin {Undefined, Bool(TRUE), Bool(FALSE)}

AmbiguousBodies == {b \in ResponseBodies : ActiveNotBoolean(b)}

\* C14: a parsed introspection response whose active is present but neither
\* true nor false (a string, a number) makes tokToSubjectIntrospection
\* return "Introspection failed": it is handled neither as active nor as
\* inactive.
C14_NonBooleanActiveGivesIntrospectionFailed ==
  \A r \in ids : \A f \in Fields :
    (strategy = "remote" /\ http[r][f].kind = "resolved"
       /\ http[r][f].body \in AmbiguousBodies /\ field[r][f].pc # "awaitHttp")
    => field[r][f].tok = Return(Str(IntrospectionFailed))

\* the operation of r selects both accounts and transfers
SelectsBoth(r) == Selected(r) = Fields

\* C15: in a request of the async variant that selects both accounts and
\* transfers, under any interleaving of the two resolvers and whatever the
\* two resolution calls return, the subject a resolver filters by is the
\* value its own contextToSubject call wrote; when the other call wrote
\* another value, it is not that one.
C15_ResolverReadsItsOwnSubject ==
  \A r \in ids : \A f \in Fields :
    (variant = "async" /\ SelectsBoth(r) /\ field[r][f].pc = "done")
    => /\ WrittenBy(r, f) = {field[r][f].seen}
       /\ \A g \in Fields \ {f} :
            WrittenBy(r, g) # WrittenBy(r, f) => field[r][f].seen \notin WrittenBy(r, g)

\* both resolvers of a request are done, their two introspection calls
\* gave different subjects, and each has filtered by its own
C15_Witness ==
  \E r \in ids :
    /\ variant = "async" /\ strategy = "remote" /\ SelectsBoth(r)
    /\ \A f \in Fields : field[r][f].pc = "done" /\ WrittenBy(r, f) = {field[r][f].seen}
    /\ field[r]["accounts"].seen = Str(Owner1)
    /\ field[r]["transfers"].seen = Str(Owner2)
    /\ field[r]["accounts"].out # <<>> /\ field[r]["transfers"].out # <<>>

=============================================================================
